---- MODULE Spec2Model ----
(***************************************************************************)
(* Rusty-DNS: the request handler of src/src/handlers.rs.                  *)
(*                                                                         *)
(* A name is a sequence of labels, a string is a sequence of tokens (a     *)
(* label or the separator "."), an address is a sequence of octets, most   *)
(* significant first.  One request is handled by one task; the tasks share *)
(* the handler, whose only mutable field is the atomic counter.  A task    *)
(* runs from its start to the await of ResponseHandler::send_response      *)
(* without touching shared state other than by the single fetch_add, so    *)
(* that part is one step; the completion of the send is a second step.     *)
(***************************************************************************)
EXTENDS Integers, Sequences, FiniteSets, TLC

VARIABLES handler, pc, query, invoked, sent, result, info, calc

vars == <<handler, pc, query, invoked, sent, result, info, calc>>

\* Number of request tasks of a run.
MaxRequests == 2

Requests == 1..MaxRequests

\* Option<T>: None is the empty sequence, Some(x) the sequence of x alone.
None == <<>>

Some(x) == <<x>>

(***************************************************************************)
(* Names and strings                                                       *)
(***************************************************************************)

\* char::to_lowercase on a label, as LowerName applies it.
to_lowercase(label) ==
  CASE label = "MyIP" -> "myip"
    [] label = "COUNTER" -> "counter"
    [] label = "Tech" -> "tech"
    [] OTHER -> label

\* LowerName::from(Name): every label lower-cased.
LowerName(name) == [i \in 1..Len(name) |-> to_lowercase(name[i])]

\* Name::to_string of a fully qualified name: every label followed by ".",
\* the root name alone is ".".
RECURSIVE to_string(_)
to_string(name) ==
  IF Len(name) = 0 THEN <<".">>
  ELSE IF Len(name) = 1 THEN <<name[1], ".">>
  ELSE <<name[1], ".">> \o to_string(Tail(name))

\* str::split('.'): the parts between the separators, empty parts included.
RECURSIVE split(_)
split(s) ==
  IF \A i \in 1..Len(s) : s[i] # "." THEN <<s>>
  ELSE LET i == CHOOSE j \in 1..Len(s) :
                  s[j] = "." /\ \A k \in 1..(j - 1) : s[k] # "."
       IN <<SubSeq(s, 1, i - 1)>> \o split(SubSeq(s, i + 1, Len(s)))

\* str::strip_prefix / str::strip_suffix: the rest of the string, or None.
strip_prefix(s, p) ==
  IF Len(p) <= Len(s) /\ SubSeq(s, 1, Len(p)) = p
  THEN Some(SubSeq(s, Len(p) + 1, Len(s))) ELSE None

strip_suffix(s, p) ==
  IF Len(p) <= Len(s) /\ SubSeq(s, Len(s) - Len(p) + 1, Len(s)) = p
  THEN Some(SubSeq(s, 1, Len(s) - Len(p))) ELSE None

\* zone_of with receiver and argument exchanged: the name's labels are the
\* trailing labels of the zone.
zone_of_swapped(zone, name) ==
  /\ Len(name) <= Len(zone)
  /\ \A i \in 1..Len(name) : name[i] = zone[Len(zone) - Len(name) + i]

\* LowerName::zone_of: the zone's labels are the trailing labels of the name.
zone_of(zone, name) ==
  /\ Len(zone) <= Len(name)
  /\ \A i \in 1..Len(zone) : zone[i] = name[Len(name) - Len(zone) + i]

\* The decimal digits of a natural number, most significant first.
Digit(d) == <<"0", "1", "2", "3", "4", "5", "6", "7", "8", "9">>[d + 1]

RECURSIVE decimal(_)
decimal(n) ==
  IF n < 10 THEN <<Digit(n)>> ELSE decimal(n \div 10) \o <<Digit(n % 10)>>

\* u64::to_string.  A u64 at or above 2^63 is written as its value minus
\* 2^64 (the two's complement reading), so that -1 is u64::MAX; its digits
\* are those of 18446744073 * 10^9 + 709551616 + n.
u64_to_string(n) ==
  IF n >= 0 THEN decimal(n)
  ELSE LET low == decimal(709551616 + n)
       IN <<"1", "8", "4", "4", "6", "7", "4", "4", "0", "7", "3">>
          \o [i \in 1..(9 - Len(low)) |-> "0"] \o low

(***************************************************************************)
(* Parsing of the parts of a query name                                    *)
(***************************************************************************)

V4(o) == [family |-> "V4", octets |-> o]
V6(o) == [family |-> "V6", octets |-> o]

Loopback6 == V6(<<0, 0, 0, 0, 0, 0, 0, 0, 0, 0, 0, 0, 0, 0, 0, 1>>)

\* str::parse::<IpAddr>: a part holds no "." after the split, so the only
\* address literals a part can hold are IPv6 ones.
parse_IpAddr(part) ==
  IF part = <<"::1">> THEN Some(Loopback6) ELSE None

\* str::parse::<u8>: decimal digits of a value below 256.
parse_u8(part) ==
  IF Len(part) = 1 /\ \E n \in 0..255 : ToString(n) = part[1]
  THEN Some(CHOOSE n \in 0..255 : ToString(n) = part[1])
  ELSE None

\* str::parse::<u64>: decimal digits, no sign.
parse_u64(s) ==
  CASE s = <<"0">> -> Some(0)
    [] s = <<"64">> -> Some(64)
    [] s = <<"128">> -> Some(128)
    [] s = <<"200">> -> Some(200)
    [] s = <<"300">> -> Some(300)
    [] OTHER -> None

(***************************************************************************)
(* Options and Handler::from_options                                       *)
(***************************************************************************)

\* Options::domain: the default, and two domains made of an address label and
\* a prefix-length label, the only ones under which a name routed to the cidr
\* zone starts with "cidr", an address, a prefix length.
Domains ==
  { <<"mentisnovae", "tech">>, <<"::1", "64">>, <<"::1", "64", "tech">> }

\* from_options with the coin zone built from the label of the dice zone.
from_options_copied_label(domain) ==
  [ counter      |-> 0,
    root_zone    |-> LowerName(domain),
    counter_zone |-> LowerName(<<"counter">> \o domain),
    myip_zone    |-> LowerName(<<"myip">> \o domain),
    coin_zone    |-> LowerName(<<"dice">> \o domain),
    dice_zone    |-> LowerName(<<"dice">> \o domain),
    cidr_zone    |-> LowerName(<<"cidr">> \o domain),
    time_zone    |-> LowerName(<<"time">> \o domain) ]

from_options(domain) ==
  [ counter      |-> 0,
    root_zone    |-> LowerName(domain),
    counter_zone |-> LowerName(<<"counter">> \o domain),
    myip_zone    |-> LowerName(<<"myip">> \o domain),
    coin_zone    |-> LowerName(<<"coin">> \o domain),
    dice_zone    |-> LowerName(<<"dice">> \o domain),
    cidr_zone    |-> LowerName(<<"cidr">> \o domain),
    time_zone    |-> LowerName(<<"time">> \o domain) ]

(***************************************************************************)
(* The range computation of do_handle_request_cidr                         *)
(***************************************************************************)

\* What the build decides: whether integer overflow panics (debug) or wraps
\* (release), and the byte order of the target.
Builds == [overflow_checks : BOOLEAN, little_endian : BOOLEAN]

Pow2(k) == <<1, 2, 4, 8, 16, 32, 64, 128, 256>>[k + 1]

\* `width - prefix_len` in u8, then `1 << that` in the address's integer
\* type: the number of host bits, or None where the build panics.
host_bits(width, prefix_len, build) ==
  LET diff  == width - prefix_len
      shift == IF diff >= 0 THEN diff ELSE diff + 256
  IN IF diff < 0 /\ build.overflow_checks THEN None
     ELSE IF shift < width THEN Some(shift)
     ELSE IF build.overflow_checks THEN None
     ELSE Some(shift % width)

\* The host bits that fall into octet i of n (octet 1 the most significant).
octet_bits(hb, i, n) ==
  LET low == 8 * (n - i)
  IN IF hb <= low THEN 0 ELSE IF hb >= low + 8 THEN 8 ELSE hb - low

\* start_ip = addr & netmask and end_ip = start_ip | !netmask, octet by octet.
start_octets(octets, hb) ==
  [i \in 1..Len(octets) |->
     octets[i] - (octets[i] % Pow2(octet_bits(hb, i, Len(octets))))]

end_octets(octets, hb) ==
  [i \in 1..Len(octets) |->
     start_octets(octets, hb)[i] + Pow2(octet_bits(hb, i, Len(octets))) - 1]

\* u32::to_be followed by Ipv4Addr::from(u32): on a little-endian target the
\* octets come out reversed.
to_be(octets, build) ==
  IF build.little_endian
  THEN [i \in 1..Len(octets) |-> octets[Len(octets) + 1 - i]]
  ELSE octets

\* The match on ip_addr: Some(<<start, end>>), or None where the build panics.
ip_range(ip_addr, prefix_len, build) ==
  LET hb == host_bits(8 * Len(ip_addr.octets), prefix_len, build)
  IN IF hb = None THEN None
     ELSE IF ip_addr.family = "V4"
     THEN Some(<<V4(to_be(start_octets(ip_addr.octets, hb[1]), build)),
                 V4(to_be(end_octets(ip_addr.octets, hb[1]), build))>>)
     ELSE Some(<<V6(start_octets(ip_addr.octets, hb[1])),
                 V6(end_octets(ip_addr.octets, hb[1]))>>)

(***************************************************************************)
(* Responses                                                               *)
(***************************************************************************)

\* Header::response_from_request: a response header, NoError, not
\* authoritative.  Header::new: the same flags on a blank header.
response_from_request == [response_code |-> "NoError", authoritative |-> FALSE]

Header_new == [response_code |-> "NoError", authoritative |-> FALSE]

set_authoritative(header, b) == [header EXCEPT !.authoritative = b]

set_response_code(header, code) == [header EXCEPT !.response_code = code]

\* The address always wrapped as RData::A.
RData_A(ip) == [rtype |-> "A", data |-> ip]

\* Record::with, which leaves the TTL at 0, in place of Record::from_rdata.
from_rdata_zero_ttl(name, ttl, rdata) == [name |-> name, ttl |-> 0, rdata |-> rdata]

\* RData::A / RData::AAAA / RData::TXT and Record::from_rdata.
RData_ip(ip) ==
  [rtype |-> IF ip.family = "V4" THEN "A" ELSE "AAAA", data |-> ip]

RData_TXT(strings) == [rtype |-> "TXT", data |-> strings]

from_rdata(name, ttl, rdata) == [name |-> name, ttl |-> ttl, rdata |-> rdata]

\* MessageResponseBuilder::build / build_no_records.
build(header, records) == [header |-> header, answers |-> records]

build_no_records(header) == [header |-> header, answers |-> <<>>]

(***************************************************************************)
(* The zone handlers.  Each gives the set of outcomes of its synchronous   *)
(* part: the counter after it, and either the response handed to           *)
(* send_response, an error returned to the caller, or a panic.             *)
(***************************************************************************)

\* A load followed by a store of the value loaded: the increment is lost.
fetch_add_lost(counter) == [previous |-> counter, current |-> counter]

\* fetch_sub in place of fetch_add.
fetch_sub(counter) == [previous |-> counter, current |-> counter - 1]

\* AtomicU64::fetch_add(1, SeqCst): the previous value and the new one.  The
\* addition wraps around at 2^64: with a u64 at or above 2^63 written as its
\* value minus 2^64, the successor of -1 (u64::MAX) is 0.
fetch_add(counter) == [previous |-> counter, current |-> counter + 1]

Send(counter, response) ==
  [kind |-> "send", counter |-> counter, response |-> response, error |-> None]

Fail(counter, error) ==
  [kind |-> "error", counter |-> counter, response |-> None, error |-> Some(error)]

Panic(counter) ==
  [kind |-> "panic", counter |-> counter, response |-> None, error |-> None]

\* gen_range over the inclusive range low..=high.
gen_range_inclusive(low, high) == low..high

\* rand::random::<bool>() and Rng::gen_range(low..high).
random_bool == BOOLEAN

gen_range(low, high) == low..(high - 1)

AnswerTtl == 60

\* The header without the set_authoritative(true) call.
authoritative_header_unset == response_from_request

\* The header every answering handler builds.
authoritative_header == set_authoritative(response_from_request, TRUE)

query_name(request) == LowerName(request.name)

do_handle_request_myip(h, request) ==
  LET c == fetch_add(h.counter)
      rdata == RData_ip(request.src)
      records == <<from_rdata(query_name(request), AnswerTtl, rdata)>>
  IN { Send(c.current, build(authoritative_header, records)) }

do_handle_request_counter(h, request) ==
  LET c == fetch_add(h.counter)
      counter == c.previous
      rdata == RData_TXT(<<u64_to_string(counter)>>)
      records == <<from_rdata(query_name(request), AnswerTtl, rdata)>>
  IN { Send(c.current, build(authoritative_header, records)) }

do_handle_request_coin(h, request) ==
  LET c == fetch_add(h.counter)
  IN { LET res == IF toss THEN "heads" ELSE "tails"
           rdata == RData_TXT(<<<<res>>>>)
           records == <<from_rdata(query_name(request), AnswerTtl, rdata)>>
       IN Send(c.current, build(authoritative_header, records))
       : toss \in random_bool }

do_handle_request_dice(h, request) ==
  LET c == fetch_add(h.counter)
  IN { LET rdata == RData_TXT(<<u64_to_string(roll)>>)
           records == <<from_rdata(query_name(request), AnswerTtl, rdata)>>
       IN Send(c.current, build(authoritative_header, records))
       : roll \in gen_range(1, 7) }

\* format!("Usable IP Range: {} - {}", start, end)
format_range(range) == <<"Usable IP Range: ", range[1], " - ", range[2]>>

do_handle_request_cidr(h, request) ==
  LET c == fetch_add(h.counter)
      query_parts == split(to_string(query_name(request)))
  IN IF Len(query_parts) # 4 \/ query_parts[1] # <<"cidr">>
     THEN { Panic(c.current) }
     ELSE LET ip_addr == parse_IpAddr(query_parts[2])
              prefix_len == parse_u8(query_parts[3])
          IN IF ip_addr = None \/ prefix_len = None
             THEN { Panic(c.current) }
             ELSE { LET range == ip_range(ip_addr[1], prefix_len[1], b)
                    IN IF range = None THEN Panic(c.current)
                       ELSE LET rdata == RData_TXT(<<format_range(range[1])>>)
                                records == <<from_rdata(query_name(request),
                                                        AnswerTtl, rdata)>>
                            IN Send(c.current,
                                    build(authoritative_header, records))
                    : b \in Builds }

\* NaiveDateTime::from_timestamp_opt(secs, 0) and its format
\* "%Y-%m-%d %H:%M:%S", for a timestamp at or after the epoch: the civil date
\* of the day number and the time of day, zero-padded.
Pad(n, width) ==
  LET d == u64_to_string(n)
  IN [i \in 1..(width - Len(d)) |-> "0"] \o d

format_date_time(secs) ==
  LET days == secs \div 86400
      rem  == secs % 86400
      z    == days + 719468
      era  == z \div 146097
      doe  == z - era * 146097
      yoe  == (doe - doe \div 1460 + doe \div 36524 - doe \div 146096) \div 365
      doy  == doe - (365 * yoe + yoe \div 4 - yoe \div 100)
      mp   == (5 * doy + 2) \div 153
      d    == doy - (153 * mp + 2) \div 5 + 1
      m    == IF mp < 10 THEN mp + 3 ELSE mp - 9
      y    == yoe + era * 400 + (IF m <= 2 THEN 1 ELSE 0)
  IN Pad(y, 4) \o <<"-">> \o Pad(m, 2) \o <<"-">> \o Pad(d, 2) \o <<" ">>
     \o Pad(rem \div 3600, 2) \o <<":">> \o Pad((rem % 3600) \div 60, 2)
     \o <<":">> \o Pad(rem % 60, 2)

\* The timestamp of the query name: the text between the prefix "epoch." and
\* the suffix ".mentisnovae.tech", parsed as u64.
epoch_timestamp(name) ==
  LET stripped == strip_prefix(to_string(name), <<"epoch", ".">>)
      middle == IF stripped = None THEN None
                ELSE strip_suffix(stripped[1], <<".", "mentisnovae", ".", "tech">>)
  IN IF middle = None THEN None ELSE parse_u64(middle[1])

\* The epoch handler with the increment after the parse of the timestamp,
\* so that a failing request is not counted.
handle_epoch_request_counts_late(h, request) ==
  LET timestamp == epoch_timestamp(query_name(request))
  IN IF timestamp = None
     THEN { Fail(h.counter, [kind |-> "InvalidQueryName", arg |-> <<>>]) }
     ELSE LET c == fetch_add(h.counter)
              rdata == RData_TXT(<<format_date_time(timestamp[1])>>)
              records == <<from_rdata(query_name(request), AnswerTtl, rdata)>>
          IN { Send(c.current, build(authoritative_header, records)) }

\* The epoch handler with the timestamp unwrapped: a name without a
\* timestamp panics.
handle_epoch_request_unwrap(h, request) ==
  LET c == fetch_add(h.counter)
      timestamp == epoch_timestamp(query_name(request))
  IN IF timestamp = None
     THEN { Panic(c.current) }
     ELSE LET rdata == RData_TXT(<<format_date_time(timestamp[1])>>)
              records == <<from_rdata(query_name(request), AnswerTtl, rdata)>>
          IN { Send(c.current, build(authoritative_header, records)) }

handle_epoch_request(h, request) ==
  LET c == fetch_add(h.counter)
      timestamp == epoch_timestamp(query_name(request))
  IN IF timestamp = None
     THEN { Fail(c.current, [kind |-> "InvalidQueryName", arg |-> <<>>]) }
     ELSE LET rdata == RData_TXT(<<format_date_time(timestamp[1])>>)
              records == <<from_rdata(query_name(request), AnswerTtl, rdata)>>
          IN { Send(c.current, build(authoritative_header, records)) }

\* The default handler without the set_response_code call.
do_handle_request_default_no_code(h, request) ==
  LET c == fetch_add(h.counter)
  IN { Send(c.current, build_no_records(authoritative_header)) }

do_handle_request_default(h, request) ==
  LET c == fetch_add(h.counter)
      header == set_response_code(authoritative_header, "NXDomain")
  IN { Send(c.current, build_no_records(header)) }

(***************************************************************************)
(* The dispatcher                                                          *)
(***************************************************************************)

\* The match with the root_zone arm first.
zone_of_request_root_first(h, name) ==
  IF zone_of(h.root_zone, name) THEN "Root"
  ELSE IF zone_of(h.myip_zone, name) THEN "MyIp"
  ELSE IF zone_of(h.counter_zone, name) THEN "Counter"
  ELSE IF zone_of(h.coin_zone, name) THEN "Coin"
  ELSE IF zone_of(h.dice_zone, name) THEN "Dice"
  ELSE IF zone_of(h.cidr_zone, name) THEN "Cidr"
  ELSE IF zone_of(h.time_zone, name) THEN "Time"
  ELSE "None"

\* The zone of the match in do_handle_request: the first arm whose guard
\* holds, None when the last arm is taken.
zone_of_request(h, name) ==
  IF zone_of(h.myip_zone, name) THEN "MyIp"
  ELSE IF zone_of(h.counter_zone, name) THEN "Counter"
  ELSE IF zone_of(h.coin_zone, name) THEN "Coin"
  ELSE IF zone_of(h.dice_zone, name) THEN "Dice"
  ELSE IF zone_of(h.cidr_zone, name) THEN "Cidr"
  ELSE IF zone_of(h.time_zone, name) THEN "Time"
  ELSE IF zone_of(h.root_zone, name) THEN "Root"
  ELSE "None"

\* The handler an arm calls.
zone_handler(zone, h, request) ==
  CASE zone = "MyIp" -> do_handle_request_myip(h, request)
    [] zone = "Counter" -> do_handle_request_counter(h, request)
    [] zone = "Coin" -> do_handle_request_coin(h, request)
    [] zone = "Dice" -> do_handle_request_dice(h, request)
    [] zone = "Cidr" -> do_handle_request_cidr(h, request)
    [] zone = "Time" -> handle_epoch_request(h, request)
    [] zone = "Root" -> do_handle_request_default(h, request)

\* do_handle_request without the checks of op code and message type.
do_handle_request_unchecked(h, request) ==
  LET name == query_name(request)
      zone == zone_of_request(h, name)
  IN IF zone = "None"
     THEN { [zone |-> "None",
             outcome |-> Fail(h.counter, [kind |-> "InvalidZone",
                                          arg |-> name])] }
     ELSE { [zone |-> zone, outcome |-> o] :
              o \in zone_handler(zone, h, request) }

\* do_handle_request with the check of the message type before that of the
\* op code.
do_handle_request_type_first(h, request) ==
  IF request.message_type # "Query"
  THEN { [zone |-> "None",
          outcome |-> Fail(h.counter, [kind |-> "InvalidMessageType",
                                       arg |-> <<request.message_type>>])] }
  ELSE IF request.op_code # "Query"
  THEN { [zone |-> "None",
          outcome |-> Fail(h.counter, [kind |-> "InvalidOpCode",
                                       arg |-> <<request.op_code>>])] }
  ELSE do_handle_request_unchecked(h, request)

\* do_handle_request up to the await of send_response: the arm taken (the
\* zone whose handler is invoked, "None" when no handler is) and the outcome.
do_handle_request(h, request) ==
  IF request.op_code # "Query"
  THEN { [zone |-> "None",
          outcome |-> Fail(h.counter, [kind |-> "InvalidOpCode",
                                       arg |-> <<request.op_code>>])] }
  ELSE IF request.message_type # "Query"
  THEN { [zone |-> "None",
          outcome |-> Fail(h.counter, [kind |-> "InvalidMessageType",
                                       arg |-> <<request.message_type>>])] }
  ELSE LET name == query_name(request)
           zone == zone_of_request(h, name)
       IN IF zone = "None"
          THEN { [zone |-> "None",
                  outcome |-> Fail(h.counter, [kind |-> "InvalidZone",
                                               arg |-> name])] }
          ELSE { [zone |-> zone, outcome |-> o] :
                   o \in zone_handler(zone, h, request) }

\* The Err arm of handle_request: a blank header with ServFail, turned into
\* the ResponseInfo the function returns.
servfail_info == set_response_code(Header_new, "ServFail")

(***************************************************************************)
(* The requests the transport hands to handle_request                      *)
(***************************************************************************)

OpCodes == {"Query", "Update"}

MessageTypes == {"Query", "Response"}

Sources == { V4(<<192, 0, 2, 1>>), Loopback6 }

\* Labels put in front of the configured domain.
Prefixes ==
  { <<>>, <<"www">>, <<"myip">>, <<"x", "MyIP">>, <<"counter">>,
    <<"a", "COUNTER">>, <<"coin">>, <<"dice">>, <<"cidr">>, <<"x", "cidr">>,
    <<"time">>, <<"epoch", "0", "time">>, <<"epoch", "0">>,
    <<"epoch", "-1", "time">>, <<"epoch", "abc", "time">>,
    <<"epoch", "18446744073709551616", "time">> }

\* Names outside the configured domain: another domain, the root, the
\* domain's parent and a name under the parent.
Outside(domain) ==
  { <<"example", "org">>, <<>>, Tail(domain), <<"counter">> \o Tail(domain) }

Names(domain) == { p \o domain : p \in Prefixes } \cup Outside(domain)

\* Every name with a well-formed query from an IPv4 source; the other op
\* codes and message types on two names, an IPv6 source on the myip names.
RequestInputs(domain) ==
  { q \in [op_code : OpCodes, message_type : MessageTypes,
           name : Names(domain), src : Sources] :
      /\ (q.op_code # "Query" \/ q.message_type # "Query") =>
            /\ q.name \in { <<"counter">> \o domain, <<"example", "org">> }
            /\ q.src.family = "V4"
      /\ q.src.family = "V6" =>
            q.name \in { <<"myip">> \o domain, <<"x", "MyIP">> \o domain } }

(***************************************************************************)
(* State machine                                                           *)
(***************************************************************************)

Init ==
  /\ \E domain \in Domains : handler = from_options(domain)
  /\ pc = [r \in Requests |-> "idle"]
  /\ query = [r \in Requests |-> None]
  /\ invoked = [r \in Requests |-> "None"]
  /\ sent = [r \in Requests |-> <<>>]
  /\ result = [r \in Requests |-> None]
  /\ info = [r \in Requests |-> None]
  /\ calc = None

\* handle_request from its call to the first await: do_handle_request runs
\* to the send_response call of a zone handler (the task then waits for the
\* sink), to an error (the Err arm answers at once) or to a panic.  Tasks
\* are numbered in the order they start.
handle_request(r) ==
  /\ pc[r] = "idle"
  /\ r > 1 => pc[r - 1] # "idle"
  /\ \E request \in RequestInputs(handler.root_zone) :
       \E taken \in do_handle_request(handler, request) :
         LET out == taken.outcome IN
         /\ query' = [query EXCEPT ![r] = Some(request)]
         /\ invoked' = [invoked EXCEPT ![r] = taken.zone]
         /\ handler' = [handler EXCEPT !.counter = out.counter]
         /\ CASE out.kind = "send" ->
                   /\ pc' = [pc EXCEPT ![r] = "sending"]
                   /\ sent' = [sent EXCEPT ![r] = Append(@, out.response)]
                   /\ UNCHANGED <<result, info, calc>>
              [] out.kind = "error" ->
                   /\ pc' = [pc EXCEPT ![r] = "done"]
                   /\ result' = [result EXCEPT ![r] = Some([ok |-> FALSE, error |-> out.error])]
                   /\ info' = [info EXCEPT ![r] = Some(servfail_info)]
                   /\ UNCHANGED <<sent, calc>>
              [] out.kind = "panic" ->
                   /\ pc' = [pc EXCEPT ![r] = "panicked"]
                   /\ UNCHANGED <<sent, result, info, calc>>

\* send_response completes: Ok with the ResponseInfo of the response sent,
\* which do_handle_request and handle_request pass on.
send_response_ok(r) ==
  /\ pc[r] = "sending"
  /\ pc' = [pc EXCEPT ![r] = "done"]
  /\ result' = [result EXCEPT ![r] = Some([ok |-> TRUE, error |-> None])]
  /\ info' = [info EXCEPT ![r] = Some(sent[r][Len(sent[r])].header)]
  /\ UNCHANGED <<handler, query, invoked, sent, calc>>

\* A failed send answered by handing the response to the sink once more.
send_response_err_retry(r) ==
  /\ pc[r] = "sending"
  /\ Len(sent[r]) < 2
  /\ sent' = [sent EXCEPT ![r] = Append(@, @[Len(@)])]
  /\ UNCHANGED <<handler, pc, query, invoked, result, info, calc>>

\* send_response fails with an I/O error: `?` returns Error::Io, and the Err
\* arm of handle_request returns the ServFail ResponseInfo.
send_response_err(r) ==
  /\ pc[r] = "sending"
  /\ pc' = [pc EXCEPT ![r] = "done"]
  /\ result' = [result EXCEPT ![r] =
                  Some([ok |-> FALSE, error |-> Some([kind |-> "Io", arg |-> <<>>])])]
  /\ info' = [info EXCEPT ![r] = Some(servfail_info)]
  /\ UNCHANGED <<handler, query, invoked, sent, calc>>

\* A cancellation that takes the increment back.
cancel_rollback(r) ==
  /\ pc[r] = "sending"
  /\ pc' = [pc EXCEPT ![r] = "cancelled"]
  /\ handler' = [handler EXCEPT !.counter = @ - 1]
  /\ UNCHANGED <<query, invoked, sent, result, info, calc>>

\* The server drops the task of the request (a timeout, a closed connection)
\* while it waits in send_response(..).await, its only await: the future is
\* dropped there, and nothing of the handler runs on the drop.
cancel(r) ==
  /\ pc[r] = "sending"
  /\ pc' = [pc EXCEPT ![r] = "cancelled"]
  /\ UNCHANGED <<handler, query, invoked, sent, result, info, calc>>

Next ==
  \E r \in Requests :
    \/ handle_request(r)
    \/ send_response_ok(r)
    \/ send_response_err(r)

Spec == Init /\ [][Next]_vars

\* The program under a server that may drop the task of a request.
NextCancel == Next \/ \E r \in Requests : cancel(r)

SpecCancel == Init /\ [][NextCancel]_vars

(***************************************************************************)
(* The range computation on its own: the prefix-length parse and the match  *)
(* on ip_addr of do_handle_request_cidr, applied to an address, the text of *)
(* a prefix length and a build.                                             *)
(***************************************************************************)

Addresses ==
  { V4(<<192, 0, 2, 130>>), V4(<<10, 77, 255, 1>>),
    V6(<<32, 1, 13, 184, 0, 0, 0, 0, 0, 0, 0, 0, 0, 0, 0, 1>>), Loopback6 }

PrefixLengths == (0..33) \cup {64, 120, 127, 128, 129, 200, 255, 256, 300}

InitCidr ==
  /\ handler = from_options(<<"mentisnovae", "tech">>)
  /\ pc = [r \in Requests |-> "idle"]
  /\ query = [r \in Requests |-> None]
  /\ invoked = [r \in Requests |-> "None"]
  /\ sent = [r \in Requests |-> <<>>]
  /\ result = [r \in Requests |-> None]
  /\ info = [r \in Requests |-> None]
  /\ \E ip_addr \in Addresses, n \in PrefixLengths, b \in Builds :
       calc = Some([ip_addr |-> ip_addr, prefix_part |-> <<ToString(n)>>,
                    build |-> b, done |-> FALSE, panicked |-> FALSE,
                    ip_range |-> None])

\* The `match query_parts[2].parse::<u8>()` and `let ip_range = match ip_addr`:
\* todo!() panics on a text that is no u8, the arithmetic may panic, and
\* otherwise ip_range is bound.
calculate_ip_range ==
  /\ calc # None
  /\ ~calc[1].done
  /\ LET prefix_len == parse_u8(calc[1].prefix_part)
         range == IF prefix_len = None THEN None
                  ELSE ip_range(calc[1].ip_addr, prefix_len[1], calc[1].build)
     IN calc' = Some([calc[1] EXCEPT !.done = TRUE,
                                     !.panicked = (range = None),
                                     !.ip_range = range])
  /\ UNCHANGED <<handler, pc, query, invoked, sent, result, info>>

NextCidr == calculate_ip_range

SpecCidr == InitCidr /\ [][NextCidr]_vars

(***************************************************************************)
(* The match of do_handle_request on its own: the guards of its arms        *)
(* applied to a name, for a handler made from a domain.                     *)
(***************************************************************************)

\* Domains that begin with the label of a derived zone, beside the others.
ZoneDomains ==
  Domains \cup { <<"counter", "tech">>, <<"myip">>, <<"time", "counter", "Tech">>,
                 <<"x">> }

ZonePrefixLabels == {"myip", "counter", "coin", "dice", "cidr", "time", "x", "MyIP"}

\* The domain, its parent, and up to two labels in front of the domain.
ZoneNames(domain) ==
  { domain, Tail(domain) }
    \cup { <<a>> \o domain : a \in ZonePrefixLabels }
    \cup { <<a, b>> \o domain : a \in ZonePrefixLabels, b \in ZonePrefixLabels }

DerivedZones == {"MyIp", "Counter", "Coin", "Dice", "Cidr", "Time"}

\* The LowerName field of the handler that the guard of an arm uses.
zone_field(h, zone) ==
  CASE zone = "MyIp" -> h.myip_zone
    [] zone = "Counter" -> h.counter_zone
    [] zone = "Coin" -> h.coin_zone
    [] zone = "Dice" -> h.dice_zone
    [] zone = "Cidr" -> h.cidr_zone
    [] zone = "Time" -> h.time_zone
    [] zone = "Root" -> h.root_zone

InitZones ==
  /\ pc = [r \in Requests |-> "idle"]
  /\ query = [r \in Requests |-> None]
  /\ invoked = [r \in Requests |-> "None"]
  /\ sent = [r \in Requests |-> <<>>]
  /\ result = [r \in Requests |-> None]
  /\ info = [r \in Requests |-> None]
  /\ \E domain \in ZoneDomains :
       /\ handler = from_options(domain)
       /\ \E name \in ZoneNames(domain) :
            calc = Some([name |-> name, done |-> FALSE, guards |-> {},
                         zone |-> "None"])

\* `match request.query().name()`: the guards that hold of the name, and the
\* arm the match takes.
match_name ==
  /\ calc # None
  /\ ~calc[1].done
  /\ LET name == LowerName(calc[1].name)
     IN calc' = Some([calc[1] EXCEPT
                        !.done = TRUE,
                        !.guards = { z \in DerivedZones \cup {"Root"} :
                                       zone_of(zone_field(handler, z), name) },
                        !.zone = zone_of_request(handler, name)])
  /\ UNCHANGED <<handler, pc, query, invoked, sent, result, info>>

NextZones == match_name

SpecZones == InitZones /\ [][NextZones]_vars

(***************************************************************************)
(* The sink completes every send it was handed, unless the task is dropped  *)
(* first: the completion of a send is weakly fair for each request.         *)
(***************************************************************************)

SpecLive ==
  SpecCancel /\ \A r \in Requests : WF_vars(send_response_ok(r) \/ send_response_err(r))

(***************************************************************************)
(* The handler after 2^64 - 2 counted requests: the counter two below the   *)
(* wrap, no request in progress.                                            *)
(***************************************************************************)

InitWrap ==
  /\ \E domain \in Domains :
       handler = [from_options(domain) EXCEPT !.counter = -2]
  /\ pc = [r \in Requests |-> "idle"]
  /\ query = [r \in Requests |-> None]
  /\ invoked = [r \in Requests |-> "None"]
  /\ sent = [r \in Requests |-> <<>>]
  /\ result = [r \in Requests |-> None]
  /\ info = [r \in Requests |-> None]
  /\ calc = None

SpecWrap == InitWrap /\ [][Next]_vars

(***************************************************************************)
(* Vocabulary of the properties                                            *)
(***************************************************************************)

Started(r) == pc[r] # "idle"

Req(r) == query[r][1]

QName(r) == LowerName(Req(r).name)

IsQuery(r) == Req(r).op_code = "Query" /\ Req(r).message_type = "Query"

\* name is base or a sub-name of it: some labels followed by those of base.
Under(name, base) ==
  /\ Len(base) <= Len(name)
  /\ SubSeq(name, Len(name) - Len(base) + 1, Len(name)) = base

\* The request is well formed and its name is in the configured domain.
Classified(r) == Started(r) /\ IsQuery(r) /\ Under(QName(r), handler.root_zone)

\* do_handle_request returned an error (from validation, a handler or the
\* sink).
Failed(r) == pc[r] = "done" /\ ~result[r][1].ok

ErrorKind(r) == result[r][1].error[1].kind

\* This step is the synchronous part of request r.
Handles(r) == pc[r] = "idle" /\ pc'[r] # "idle"

\* The text of the one TXT record handed to the sink.
Reported(r) == sent[r][1].answers[1].rdata.data[1]

(***************************************************************************)
(* C1                                                                      *)
(***************************************************************************)

\* C1: every request whose dispatch failed (validation error, handler error,
\* failed send) has had a response with ServFail handed to the response sink.
C1_ServFailSent ==
  \A r \in Requests :
    Failed(r) =>
      \E i \in 1..Len(sent[r]) : sent[r][i].header.response_code = "ServFail"

(***************************************************************************)
(* C2                                                                      *)
(***************************************************************************)

\* C2: a Counter-zone request started with the counter at c answers with the
\* decimal string of c + 1.
C2_ReportsPostIncrement ==
  [][\A r \in Requests :
       (Handles(r) /\ invoked'[r] = "Counter") =>
         /\ Len(sent'[r]) = 1
         /\ sent'[r][1].answers[1].rdata.data
              = <<u64_to_string(handler.counter + 1)>>]_vars

(***************************************************************************)
(* C3                                                                      *)
(***************************************************************************)

\* Tasks are numbered in the order of their increments: the counter value
\* before task i is the number of earlier tasks that reached a handler.
Before(i) == Cardinality({q \in 1..(i - 1) : invoked[q] # "None"})

\* C3: Counter-zone requests report pairwise distinct values, and a batch of
\* them with no other request in between reports a run of consecutive
\* integers that starts at the counter value before the batch or right after
\* it.
C3_DistinctConsecutive ==
  /\ \A i, j \in Requests :
       (i # j /\ invoked[i] = "Counter" /\ invoked[j] = "Counter") =>
         Reported(i) # Reported(j)
  /\ \A i, j \in Requests :
       (i <= j /\ \A k \in i..j : invoked[k] = "Counter") =>
         \E b \in {Before(i), Before(i) + 1} :
           {Reported(k) : k \in i..j} = {u64_to_string(b + n) : n \in 0..(j - i)}

\* Two Counter-zone requests are in flight at once.
C3_Witness ==
  \E i, j \in Requests :
    /\ i < j
    /\ invoked[i] = "Counter" /\ invoked[j] = "Counter"
    /\ pc[i] = "sending" /\ pc[j] = "sending"

(***************************************************************************)
(* C4                                                                      *)
(***************************************************************************)

\* C4: the counter equals the number of requests classified into a zone,
\* whatever the zone and whether the handler answered, failed or panicked.
C4_CounterCountsClassified ==
  handler.counter = Cardinality({r \in Requests : Classified(r)})

\* Every task ran, all were classified, and one handler failed.
C4_Witness ==
  /\ handler.counter = MaxRequests
  /\ \E r \in Requests : Failed(r) /\ invoked[r] = "Time"
  /\ \E r \in Requests : invoked[r] \notin {"None", "Time"}

(***************************************************************************)
(* C5                                                                      *)
(***************************************************************************)

\* C5: a request whose op code or message type is not Query ends with
\* InvalidOpCode (op code first) or InvalidMessageType, reaches no handler,
\* hands nothing to the sink and leaves the counter as it was.
C5_NonQueryRejected ==
  /\ [](\A r \in Requests :
         (Started(r) /\ ~IsQuery(r)) =>
           /\ Failed(r)
           /\ invoked[r] = "None"
           /\ sent[r] = <<>>
           /\ result[r][1].error[1] =
                IF Req(r).op_code # "Query"
                THEN [kind |-> "InvalidOpCode", arg |-> <<Req(r).op_code>>]
                ELSE [kind |-> "InvalidMessageType",
                      arg |-> <<Req(r).message_type>>])
  /\ [][\A r \in Requests :
         (Handles(r) /\ ~(query'[r][1].op_code = "Query"
                          /\ query'[r][1].message_type = "Query")) =>
           handler' = handler]_vars

\* Both kinds of rejection have happened.
C5_Witness ==
  /\ \E r \in Requests : Failed(r) /\ ErrorKind(r) = "InvalidOpCode"
  /\ \E r \in Requests : Failed(r) /\ ErrorKind(r) = "InvalidMessageType"

(***************************************************************************)
(* C6                                                                      *)
(***************************************************************************)

\* C6: a well-formed query whose name is neither the configured domain nor
\* under it ends with InvalidZone carrying the name, reaches no handler,
\* hands nothing to the sink and leaves the counter as it was.
C6_OutsideDomainRejected ==
  /\ [](\A r \in Requests :
         (Started(r) /\ IsQuery(r) /\ ~Under(QName(r), handler.root_zone)) =>
           /\ Failed(r)
           /\ result[r][1].error[1] = [kind |-> "InvalidZone", arg |-> QName(r)]
           /\ invoked[r] = "None"
           /\ sent[r] = <<>>)
  /\ [][\A r \in Requests :
         (Handles(r) /\ ~Under(LowerName(query'[r][1].name), handler.root_zone)) =>
           handler' = handler]_vars

\* The rejected name is the parent of the configured domain: it shares
\* labels with the domain without being under it.
C6_Witness ==
  \E r \in Requests :
    /\ Failed(r) /\ ErrorKind(r) = "InvalidZone"
    /\ QName(r) = Tail(handler.root_zone)
    /\ QName(r) # <<>>

(***************************************************************************)
(* C7                                                                      *)
(***************************************************************************)

ZoneLabels == {"myip", "counter", "coin", "dice", "cidr", "time"}

ZoneOfLabel(label) ==
  CASE label = "myip" -> "MyIp"
    [] label = "counter" -> "Counter"
    [] label = "coin" -> "Coin"
    [] label = "dice" -> "Dice"
    [] label = "cidr" -> "Cidr"
    [] label = "time" -> "Time"

\* C7: a well-formed query named <label>.<domain> or under it reaches that
\* label's handler; the Root handler is reached exactly by the names in the
\* domain that are under none of the six derived zones.
C7_ZonePrecedence ==
  \A r \in Requests :
    (Started(r) /\ IsQuery(r)) =>
      /\ \A label \in ZoneLabels :
           Under(QName(r), <<label>> \o handler.root_zone) =>
             invoked[r] = ZoneOfLabel(label)
      /\ invoked[r] = "Root" <=>
           /\ Under(QName(r), handler.root_zone)
           /\ \A label \in ZoneLabels :
                ~Under(QName(r), <<label>> \o handler.root_zone)

\* A name strictly under a derived zone reached that zone's handler and a
\* name strictly under the domain reached the Root handler.
C7_Witness ==
  /\ \E r \in Requests :
       /\ invoked[r] = "Counter"
       /\ Len(QName(r)) > Len(handler.counter_zone)
  /\ \E r \in Requests :
       /\ invoked[r] = "Root"
       /\ Len(QName(r)) > Len(handler.root_zone)

(***************************************************************************)
(* C8                                                                      *)
(***************************************************************************)

NxDomainHeader == [response_code |-> "NXDomain", authoritative |-> TRUE]

\* C8: a request that reaches the Root handler hands the sink one response
\* with NXDomain, the authoritative bit and no answer record, gets that
\* header back when the send succeeds, and adds exactly 1 to the counter.
C8_DefaultNxDomain ==
  /\ [](\A r \in Requests :
         invoked[r] = "Root" =>
           /\ pc[r] \in {"sending", "done", "cancelled"}
           /\ sent[r] = <<[header |-> NxDomainHeader, answers |-> <<>>]>>
           /\ (pc[r] = "done" /\ result[r][1].ok) =>
                info[r] = Some(NxDomainHeader))
  /\ [][\A r \in Requests :
         (Handles(r) /\ invoked'[r] = "Root") =>
           handler'.counter = handler.counter + 1]_vars

\* A Root-zone request was answered.
C8_Witness ==
  \E r \in Requests :
    invoked[r] = "Root" /\ pc[r] = "done" /\ result[r][1].ok

(***************************************************************************)
(* C9                                                                      *)
(***************************************************************************)

\* The name does not have the layout do_handle_request_cidr asks for.
CidrDeviates(name) ==
  LET parts == split(to_string(name))
  IN \/ Len(parts) # 4
     \/ parts[1] # <<"cidr">>
     \/ parse_IpAddr(parts[2]) = None
     \/ parse_u8(parts[3]) = None

\* C9: a Cidr-zone request whose name deviates from the layout does not
\* panic: it ends with the error InvalidCidrQuery and the ServFail outcome.
C9_CidrDeviationIsError ==
  \A r \in Requests :
    (invoked[r] = "Cidr" /\ CidrDeviates(QName(r))) =>
      /\ Failed(r)
      /\ ErrorKind(r) = "InvalidCidrQuery"
      /\ info[r] = Some(servfail_info)

(***************************************************************************)
(* C10                                                                     *)
(***************************************************************************)

\* Four labels: a leading one, an address, a prefix length, a trailing one.
FourLabelLayout(name) ==
  /\ Len(name) = 4
  /\ parse_IpAddr(<<name[2]>>) # None
  /\ parse_u8(<<name[3]>>) # None
  /\ parse_u8(<<name[3]>>)[1] <= 8 * Len(parse_IpAddr(<<name[2]>>)[1].octets)

\* C10: a request that reaches the Cidr handler with a name of the
\* four-label layout hands the sink one TXT record "Usable IP Range: ...".
C10_FourLabelCidrAnswered ==
  \A r \in Requests :
    (invoked[r] = "Cidr" /\ FourLabelLayout(QName(r))) =>
      /\ pc[r] \in {"sending", "done", "cancelled"}
      /\ Len(sent[r]) = 1
      /\ Len(sent[r][1].answers) = 1
      /\ sent[r][1].answers[1].rdata.rtype = "TXT"
      /\ Reported(r)[1] = "Usable IP Range: "

(***************************************************************************)
(* C11                                                                     *)
(***************************************************************************)

\* The bits of the octets, most significant first, and back.
BitsOf(octets) ==
  [i \in 1..(8 * Len(octets)) |->
     (octets[(i + 7) \div 8] \div Pow2(7 - ((i - 1) % 8))) % 2]

RECURSIVE BitsValue(_)
BitsValue(bits) ==
  IF bits = <<>> THEN 0
  ELSE 2 * BitsValue(SubSeq(bits, 1, Len(bits) - 1)) + bits[Len(bits)]

OctetsOf(bits) ==
  [i \in 1..(Len(bits) \div 8) |-> BitsValue(SubSeq(bits, 8 * i - 7, 8 * i))]

\* The address with every bit after the first p set to b.
WithHostBits(addr, p, b) ==
  [addr EXCEPT !.octets =
     OctetsOf([i \in 1..(8 * Len(addr.octets)) |->
                 IF i > p THEN b ELSE BitsOf(addr.octets)[i]])]

Width(addr) == 8 * Len(addr.octets)

\* The computation ran on a prefix length that parsed.
Calculated == calc # None /\ calc[1].done /\ parse_u8(calc[1].prefix_part) # None

PrefixLen == parse_u8(calc[1].prefix_part)[1]

\* C11: for a prefix length p with 0 < p < width the computation returns the
\* address with its host bits cleared and the address with them set, in the
\* byte order of the input.
C11_RangeOfInnerPrefix ==
  (Calculated /\ 0 < PrefixLen /\ PrefixLen < Width(calc[1].ip_addr)) =>
    calc[1].ip_range = Some(<<WithHostBits(calc[1].ip_addr, PrefixLen, 0),
                              WithHostBits(calc[1].ip_addr, PrefixLen, 1)>>)

(***************************************************************************)
(* C12                                                                     *)
(***************************************************************************)

\* C12: prefix length 0 returns the whole address family, all-zeros to
\* all-ones, and a prefix length equal to the width returns the input
\* address as start and as end.
C12_RangeOfBoundaryPrefix ==
  Calculated =>
    /\ PrefixLen = 0 =>
         calc[1].ip_range = Some(<<WithHostBits(calc[1].ip_addr, 0, 0),
                                   WithHostBits(calc[1].ip_addr, 0, 1)>>)
    /\ PrefixLen = Width(calc[1].ip_addr) =>
         calc[1].ip_range = Some(<<calc[1].ip_addr, calc[1].ip_addr>>)

(***************************************************************************)
(* C13                                                                     *)
(***************************************************************************)

\* The text of the prefix length is no u8, or the u8 exceeds the width.
PrefixOutOfRange ==
  \/ parse_u8(calc[1].prefix_part) = None
  \/ parse_u8(calc[1].prefix_part)[1] > Width(calc[1].ip_addr)

\* C13: a prefix length outside 0..width is rejected: the computation
\* neither panics nor produces a range.
C13_OutOfRangePrefixRejected ==
  (calc # None /\ calc[1].done /\ PrefixOutOfRange) =>
    ~calc[1].panicked /\ calc[1].ip_range = None

(***************************************************************************)
(* C14                                                                     *)
(***************************************************************************)

\* C14: a query named epoch.0.<configured domain> is dispatched to the Time
\* handler and answered with one TXT record "1970-01-01 00:00:00".
C14_EpochZeroAnswered ==
  \A r \in Requests :
    (Started(r) /\ IsQuery(r) /\ QName(r) = <<"epoch", "0">> \o handler.root_zone) =>
      /\ invoked[r] = "Time"
      /\ pc[r] \in {"sending", "done", "cancelled"}
      /\ Len(sent[r]) = 1
      /\ Len(sent[r][1].answers) = 1
      /\ sent[r][1].answers[1].rdata.rtype = "TXT"
      /\ Reported(r) = <<"1", "9", "7", "0", "-", "0", "1", "-", "0", "1", " ",
                         "0", "0", ":", "0", "0", ":", "0", "0">>

(***************************************************************************)
(* C15                                                                     *)
(***************************************************************************)

\* The name routed to the Time handler carries no timestamp label, or one
\* that is negative, not a number, or beyond 64 bits.
TimestampMissing(name) == Len(name) < 2 \/ name[1] # "epoch"

TimestampInvalid(name) ==
  /\ Len(name) >= 2
  /\ name[1] = "epoch"
  /\ name[2] \in {"-1", "abc", "18446744073709551616"}

C16_NoRetry ==
  [][ /\ \A r \in Requests :
           /\ Started(r) =>
                /\ pc'[r] # "idle"
                /\ query'[r] = query[r]
                /\ invoked'[r] = invoked[r]
                /\ sent'[r] = sent[r]
           /\ Len(sent'[r]) <= 1
           /\ pc[r] \in {"done", "panicked", "cancelled"} =>
                pc'[r] = pc[r] /\ result'[r] = result[r] /\ info'[r] = info[r]
      /\ handler'.counter # handler.counter =>
           /\ handler'.counter = handler.counter + 1
           /\ \E r \in Requests : Handles(r) ]_vars

\* One request failed in its handler and one in the send, each counted once
\* and the second with its one response handed over.
C16_Witness ==
  \E i, j \in Requests :
    /\ Failed(i) /\ invoked[i] = "Time" /\ sent[i] = <<>>
    /\ Failed(j) /\ ErrorKind(j) = "Io" /\ Len(sent[j]) = 1
    /\ handler.counter = 2

(***************************************************************************)
(* C17                                                                     *)
(***************************************************************************)

\* C17: a request handled by the MyIp handler hands the sink one response
\* with one record, whose data is the source address of the request and
\* whose type is A for an IPv4 source and AAAA for an IPv6 source.
C17_MyIpEchoesSource ==
  \A r \in Requests :
    invoked[r] = "MyIp" =>
      /\ pc[r] \in {"sending", "done", "cancelled"}
      /\ Len(sent[r]) = 1
      /\ Len(sent[r][1].answers) = 1
      /\ sent[r][1].answers[1].rdata.data = Req(r).src
      /\ sent[r][1].answers[1].rdata.rtype =
           (IF Req(r).src.family = "V4" THEN "A" ELSE "AAAA")

C17_Witness ==
  \E i, j \in Requests :
    /\ invoked[i] = "MyIp" /\ Req(i).src.family = "V6"
    /\ invoked[j] = "MyIp" /\ Req(j).src.family = "V4"
    /\ pc[i] = "done" /\ result[i][1].ok
    /\ pc[j] = "done" /\ result[j][1].ok

(***************************************************************************)
(* C18                                                                     *)
(***************************************************************************)

\* C18: every response handed to the sink has the authoritative bit set,
\* and the ResponseInfo of a failed request, the ServFail header built by
\* handle_request, has not.
C18_Authoritative ==
  \A r \in Requests :
    /\ \A i \in 1..Len(sent[r]) : sent[r][i].header.authoritative
    /\ Failed(r) =>
         /\ ~info[r][1].authoritative
         /\ info[r][1].response_code = "ServFail"

C18_Witness ==
  \E i, j \in Requests :
    /\ invoked[i] = "Root" /\ Len(sent[i]) = 1
    /\ sent[i][1].header.response_code = "NXDomain"
    /\ invoked[j] = "Coin" /\ Len(sent[j]) = 1
    /\ Failed(j)

(***************************************************************************)
(* C19                                                                     *)
(***************************************************************************)

Synthesizing == {"MyIp", "Counter", "Coin", "Dice", "Cidr", "Time"}

\* C19: the response a synthesizing handler hands to the sink holds one
\* record, owned by the name of the query (as the request holds it, in
\* lower case) and with a TTL of 60.
C19_OneRecordTtl60 ==
  \A r \in Requests :
    (invoked[r] \in Synthesizing /\ sent[r] # <<>>) =>
      /\ Len(sent[r][1].answers) = 1
      /\ sent[r][1].answers[1].name = QName(r)
      /\ sent[r][1].answers[1].ttl = 60

C19_Witness ==
  \E i, j \in Requests :
    /\ invoked[i] = "Cidr" /\ pc[i] = "done" /\ result[i][1].ok
    /\ invoked[j] = "Counter" /\ pc[j] = "done" /\ result[j][1].ok
    /\ Req(j).name # QName(j)

(***************************************************************************)
(* C20                                                                     *)
(***************************************************************************)

\* The order of u64 on the two's complement reading: the negative numbers
\* are the values from 2^63 on.
u64_le(a, b) ==
  \/ a >= 0 /\ b < 0
  \/ (a >= 0) = (b >= 0) /\ a <= b

\* C20: the counter of a handler just constructed is 0, and no step takes
\* the counter to a smaller value, at the top of the u64 range included.
C20_NeverDecreases ==
  /\ \A domain \in Domains : from_options(domain).counter = 0
  /\ [][u64_le(handler.counter, handler'.counter)]_vars

\* C20 as amended: the counter of a handler just constructed is 0; below
\* u64::MAX no step takes it to a smaller value, and at u64::MAX a step
\* leaves it or wraps it to 0.
C20_NeverDecreasesBelowMax ==
  /\ \A domain \in Domains : from_options(domain).counter = 0
  /\ [][ /\ handler.counter # -1 => u64_le(handler.counter, handler'.counter)
         /\ handler.counter = -1 => handler'.counter \in {-1, 0} ]_vars

\* The counter has wrapped: a request counted at u64::MAX was handled.
C20_Witness ==
  /\ handler.counter = 0
  /\ \A r \in Requests : Started(r) /\ invoked[r] # "None"

(***************************************************************************)
(* C21                                                                     *)
(***************************************************************************)

\* The requests before j whose handler ran, whatever became of them.
CountedBefore(j) == {i \in Requests : i < j /\ invoked[i] # "None"}

\* The request was counted and then cancelled, or its send failed.
Unanswered(r) ==
  /\ invoked[r] # "None"
  /\ pc[r] = "cancelled" \/ (Failed(r) /\ ErrorKind(r) = "Io")

\* C21: the step that cancels a counted request, or in which its send
\* fails, leaves the counter as it is, and the value a Counter request
\* reports counts every request handled before it, the cancelled and the
\* failed ones included.
C21_IncrementKept ==
  [][ /\ \A r \in Requests :
           (pc[r] = "sending" /\ pc'[r] # "sending") =>
             handler'.counter = handler.counter
      /\ \A j \in Requests :
           (invoked'[j] = "Counter" /\ \A i \in CountedBefore(j)' : Unanswered(i)') =>
             Reported(j)' = u64_to_string(Cardinality(CountedBefore(j)')) ]_vars

\* A request was counted and cancelled, and the Counter request after it
\* reports it.
C21_Witness ==
  \E i, j \in Requests :
    /\ i < j
    /\ invoked[i] # "None" /\ pc[i] = "cancelled"
    /\ invoked[j] = "Counter"
    /\ Reported(j) = <<"1">>
    /\ handler.counter = 2

(***************************************************************************)
(* C22                                                                     *)
(***************************************************************************)

DiceTexts == {<<"1">>, <<"2">>, <<"3">>, <<"4">>, <<"5">>, <<"6">>}

CoinTexts == {<<"heads">>, <<"tails">>}

\* The texts among which the handling of the request of r chooses: those of
\* the outcomes of do_handle_request on its request.
PossibleTexts(r) ==
  { taken.outcome.response.answers[1].rdata.data[1] :
      taken \in do_handle_request(handler, Req(r)) }

\* C22: the text a Dice request hands to the sink is the decimal string of
\* one of 1..6 and the text of a Coin request is heads or tails; and the
\* handling of a Dice request chooses among all six texts, that of a Coin
\* request among both.  Stated of the step that handles the request: what
\* it hands to the sink does not change afterwards.
C22_DiceAndCoinValues ==
  [][ \A r \in Requests :
        Handles(r) =>
          /\ invoked'[r] = "Dice" =>
               /\ sent'[r] # <<>>
               /\ Reported(r)' \in DiceTexts
               /\ PossibleTexts(r)' = DiceTexts
          /\ invoked'[r] = "Coin" =>
               /\ sent'[r] # <<>>
               /\ Reported(r)' \in CoinTexts
               /\ PossibleTexts(r)' = CoinTexts ]_vars

C22_Witness ==
  \E i, j \in Requests :
    /\ invoked[i] = "Dice" /\ Reported(i) = <<"6">>
    /\ invoked[j] = "Coin" /\ Reported(j) = <<"tails">>

(***************************************************************************)
(* C23                                                                     *)
(***************************************************************************)

\* C23: whatever the other requests do, a request that was started ends
\* with a result, unless its task was dropped before its send completed.
C23_EndsWithResult ==
  \A r \in Requests :
    Started(r) ~> ((pc[r] = "done" /\ result[r] # None) \/ pc[r] = "cancelled")

(***************************************************************************)
(* C24                                                                     *)
(***************************************************************************)

\* C24: a request whose op code and message type are both not Query fails
\* with InvalidOpCode, and a request whose op code or message type is not
\* Query and whose name is outside the root zone fails with the error of
\* that check, not with InvalidZone.
C24_ValidationOrder ==
  \A r \in Requests :
    Started(r) =>
      /\ (Req(r).op_code # "Query" /\ Req(r).message_type # "Query") =>
           Failed(r) /\ ErrorKind(r) = "InvalidOpCode"
      /\ (~IsQuery(r) /\ ~Under(QName(r), handler.root_zone)) =>
           /\ Failed(r)
           /\ ErrorKind(r) = (IF Req(r).op_code # "Query"
                              THEN "InvalidOpCode" ELSE "InvalidMessageType")

\* A request with both faults and a name outside the root zone, and one
\* with the message type alone at fault and such a name.
C24_Witness ==
  \E i, j \in Requests :
    /\ Started(i) /\ Started(j)
    /\ Req(i).op_code # "Query" /\ Req(i).message_type # "Query"
    /\ ~Under(QName(i), handler.root_zone)
    /\ Failed(i) /\ ErrorKind(i) = "InvalidOpCode"
    /\ Req(j).op_code = "Query" /\ Req(j).message_type # "Query"
    /\ ~Under(QName(j), handler.root_zone)
    /\ Failed(j) /\ ErrorKind(j) = "InvalidMessageType"

(***************************************************************************)
(* C25                                                                     *)
(***************************************************************************)

\* C25: the guards of at most one derived zone hold of a name, the guard
\* of the root zone holds wherever one of them does, and the arm taken is
\* the derived zone whose guard holds, and otherwise Root or none by the
\* guard of the root zone: the order of the six derived arms does not
\* matter, only that Root comes after them.
C25_DerivedZonesDisjoint ==
  (calc # None /\ calc[1].done) =>
    LET derived == calc[1].guards \cap DerivedZones
    IN /\ Cardinality(derived) <= 1
       /\ derived # {} => "Root" \in calc[1].guards
       /\ calc[1].zone =
            (IF derived # {} THEN CHOOSE z \in derived : TRUE
             ELSE IF "Root" \in calc[1].guards THEN "Root" ELSE "None")

\* A name under a derived zone of a domain that itself begins with the
\* label of another derived zone.
C25_Witness ==
  /\ calc # None /\ calc[1].done
  /\ calc[1].name = <<"x", "myip", "counter", "tech">>
  /\ calc[1].guards = {"MyIp", "Root"}
  /\ calc[1].zone = "MyIp"

====
